---- MODULE Spec2Model ----
(***************************************************************************)
(* Model of the credential and session-renewal subsystem of                *)
(* gorm-user-auth: the user store, the refresh-token store, the JWT issuer *)
(* and verifier, the Login handler and the AuthMiddleware.                 *)
(*                                                                         *)
(* Time is the wall clock in whole seconds.  A string is a sequence of     *)
(* chunks; a chunk is the literal "Bearer ", a compact JWT or other text.  *)
(***************************************************************************)
EXTENDS Integers, Sequences, FiniteSets, TLC

\* ------------------------------------------------------------------ bounds
MaxUsers == 2
MaxTicks == 2
MaxRows == 3

\* ------------------------------------------------------- program constants
TokenTTL == 300
CookieMaxAge == 3600

JWT_SECRET == "server-secret"

\* ------------------------------------------------------------ input sets
Salts == {"s1"}
HashSeq == <<"h1", "h2">>
Hashes == {HashSeq[i] : i \in 1..Len(HashSeq)}
Faults == {"sign", "persist"}
Ips == {"10.0.0.1"}
TickSteps == {TokenTTL}

\* ------------------------------------------------------------------ state
\* users: the rows of the user table, by ID; rts: the rows of the refresh
\* token table; now: the wall clock; req: the request being served, or the
\* last one served; fault: the failure injected into the signer, the
\* refresh token table or the user table, "none" when all work
VARIABLES users, rts, now, req, fault, peer

vars == <<users, rts, now, req, fault, peer>>

\* ---------------------------------------------------------------- strings
Chunk(form, alg, id, exp, mac, text) ==
    [form |-> form, alg |-> alg, authorized |-> (form = "jwt"), id |-> id,
     exp |-> exp, mac |-> mac, text |-> text]

BearerPrefix == Chunk("Bearer ", "", 0, 0, <<>>, "")
Text(s) == Chunk("text", "", 0, 0, <<>>, s)
EmptyString == <<>>

\* c.Cookie(name): the value and nil, or "" and http.ErrNoCookie
NoCookie == [present |-> FALSE, value |-> EmptyString]
Cookie(v) == [present |-> TRUE, value |-> v]

IndexOfBearer(s) ==
    IF \E i \in 1..Len(s) : s[i] = BearerPrefix
    THEN CHOOSE i \in 1..Len(s) : s[i] = BearerPrefix /\ \A j \in 1..(i - 1) : s[j] # BearerPrefix
    ELSE 0

RECURSIVE SplitBearer(_)
\* strings.Split(authHeader, "Bearer ")
SplitBearer(s) ==
    LET i == IndexOfBearer(s)
    IN  IF i = 0 THEN <<s>>
        ELSE <<SubSeq(s, 1, i - 1)>> \o SplitBearer(SubSeq(s, i + 1, Len(s)))

\* ----------------------------------------------------------------- tokens
\* HMAC over the signing input (header and claims) under a key
Sign(key, alg, id, exp) == <<key, alg, id, exp>>

Jwt(alg, id, exp, mac) == <<Chunk("jwt", alg, id, exp, mac, "")>>

HMACAlgs == {"HS256", "HS384", "HS512"}
RegisteredAlgs == HMACAlgs \cup {"RS256", "none"}

GenerateTokenShortTTL(user, t) ==
    [token |-> Jwt("HS256", user.ID, t + 60, Sign(JWT_SECRET, "HS256", user.ID, t + 60)),
     err |-> "nil"]

GenerateTokenNoTTL(user, t) ==
    [token |-> Jwt("HS256", user.ID, t, Sign(JWT_SECRET, "HS256", user.ID, t)),
     err |-> "nil"]

GenerateTokenNoId(user, t) ==
    [token |-> Jwt("HS256", 0, t + TokenTTL, Sign(JWT_SECRET, "HS256", 0, t + TokenTTL)),
     err |-> "nil"]

\* GenerateToken: claims authorized, id, exp = now + 5 minutes, signed HS256;
\* the empty string and an error when token.SignedString fails
GenerateToken(user, t) ==
    IF fault = "sign" THEN [token |-> EmptyString, err |-> "signing failed"]
    ELSE [token |-> Jwt("HS256", user.ID, t + TokenTTL,
                        Sign(JWT_SECRET, "HS256", user.ID, t + TokenTTL)),
          err |-> "nil"]

ParseExpiredFirst(s, clock) ==
    IF Len(s) # 1 \/ s[1].form # "jwt" THEN [err |-> "malformed", id |-> 0]
    ELSE LET t == s[1] IN
         IF t.alg \notin RegisteredAlgs THEN [err |-> "unverifiable", id |-> 0]
         ELSE IF t.alg \notin HMACAlgs THEN [err |-> "unverifiable", id |-> 0]
         ELSE IF ~(clock < t.exp) THEN [err |-> "expired", id |-> t.id]
         ELSE IF t.mac # Sign(JWT_SECRET, t.alg, t.id, t.exp)
              THEN [err |-> "signature_invalid", id |-> 0]
         ELSE [err |-> "nil", id |-> t.id]

ParseInclusive(s, clock) ==
    IF Len(s) # 1 \/ s[1].form # "jwt" THEN [err |-> "malformed", id |-> 0]
    ELSE LET t == s[1] IN
         IF t.alg \notin RegisteredAlgs THEN [err |-> "unverifiable", id |-> 0]
         ELSE IF t.alg \notin HMACAlgs THEN [err |-> "unverifiable", id |-> 0]
         ELSE IF t.mac # Sign(JWT_SECRET, t.alg, t.id, t.exp)
              THEN [err |-> "signature_invalid", id |-> 0]
         ELSE IF clock > t.exp THEN [err |-> "expired", id |-> t.id]
         ELSE [err |-> "nil", id |-> t.id]

\* jwt.Parse with the key function of AuthMiddleware: segments, signing
\* method, key function (HMAC only), signature, then the exp claim
Parse(s, clock) ==
    IF Len(s) # 1 \/ s[1].form # "jwt" THEN [err |-> "malformed", id |-> 0]
    ELSE LET t == s[1] IN
         IF t.alg \notin RegisteredAlgs THEN [err |-> "unverifiable", id |-> 0]
         ELSE IF t.alg \notin HMACAlgs THEN [err |-> "unverifiable", id |-> 0]
         ELSE IF t.mac # Sign(JWT_SECRET, t.alg, t.id, t.exp)
              THEN [err |-> "signature_invalid", id |-> 0]
         ELSE IF ~(clock < t.exp) THEN [err |-> "expired", id |-> t.id]
         ELSE [err |-> "nil", id |-> t.id]

\* err.Error() of a jwt.Parse failure
ParseErrorText(e) == <<"jwt: ", e>>

\* ----------------------------------------------------------------- users
\* a plaintext password is a sequence of bytes
Pw1 == <<112, 119, 49>>
Pw2 == <<112, 119, 50>>

\* the bytes of key material blowfish.ExpandKey consumes (18 words of 4 bytes)
BlowfishKeyBytes == 72

\* blowfish.ExpandKey as bcrypt calls it: the key is the password followed
\* by a NUL byte, and the key bytes are read cyclically.  The key material
\* is kept by its shortest period: two passwords get the same key exactly
\* when they give the same BlowfishKeyBytes bytes.
ExpandKey(password) ==
    LET key == password \o <<0>>
        stream == [j \in 1..BlowfishKeyBytes |-> key[((j - 1) % Len(key)) + 1]]
        Periodic(k) == \A j \in 1..BlowfishKeyBytes : stream[j] = stream[((j - 1) % k) + 1]
        period == CHOOSE k \in 1..BlowfishKeyBytes :
                      Periodic(k) /\ \A m \in 1..(k - 1) : ~Periodic(m)
    IN  SubSeq(stream, 1, period)

\* the passwords clients submit: the two registered ones, and one that
\* differs from Pw1 by a NUL byte and a repetition
Pw1Again == Pw1 \o <<0>> \o Pw1
PasswordBytes == {Pw1, Pw2, Pw1Again}

\* the key schedule of every password in use, computed once
KeyOf == [p \in PasswordBytes |-> ExpandKey(p)]

BcryptPlain(password, salt) ==
    [salt |-> salt, digest |-> <<"plain", salt, password>>]

\* bcrypt.GenerateFromPassword: a one-way hash of the salt and the expanded key
Bcrypt(password, salt) ==
    [salt |-> salt, digest |-> <<"bcrypt", salt, KeyOf[password]>>]
NoHash == [salt |-> "", digest |-> <<>>]

ZeroUser == [ID |-> 0, Email |-> "", Password |-> NoHash, Deleted |-> FALSE]

\* User.BeforeCreate: the password is replaced by its hash
BeforeCreate(u, salt) == [u EXCEPT !.Password = Bcrypt(u.Password, salt)]

\* User.CheckPassword: bcrypt.CompareHashAndPassword
CheckPassword(u, password) ==
    IF u.Password = Bcrypt(password, u.Password.salt) THEN "nil"
    ELSE "crypto/bcrypt: hashedPassword is not the hash of the given password"

LiveIds == {i \in 1..Len(users) : ~users[i].Deleted}

GetUserUnscoped(id) ==
    IF id \in 1..Len(users) THEN [user |-> users[id], err |-> "nil"]
    ELSE [user |-> ZeroUser, err |-> "record not found"]

\* UserService.GetUser: db.First(&user, id) over the rows not soft-deleted
GetUser(id) ==
    IF id \in LiveIds THEN [user |-> users[id], err |-> "nil"]
    ELSE [user |-> ZeroUser, err |-> "record not found"]

\* UserService.GetUserByEmail: the first live row with that email
GetUserByEmail(email) ==
    LET ids == {i \in LiveIds : users[i].Email = email}
    IN  IF ids = {} THEN [user |-> ZeroUser, err |-> "record not found"]
        ELSE [user |-> users[CHOOSE i \in ids : \A j \in ids : i <= j], err |-> "nil"]

\* ---------------------------------------------------------- refresh tokens
ZeroRT == [ID |-> 0, Hash |-> "", UserId |-> 0, Ip |-> "", User |-> ZeroUser]

\* RTService.GetRT: the first row with that hash, its User preloaded (the
\* zero User when the owner's row is gone)
GetRT(hash) ==
    LET found == {r \in rts : <<Text(r.Hash)>> = hash} IN
    IF found # {}
    THEN LET r == CHOOSE x \in found : \A y \in found : x.ID <= y.ID
         IN  [rt |-> [ID |-> r.ID, Hash |-> r.Hash, UserId |-> r.UserId, Ip |-> r.Ip,
                      User |-> GetUser(r.UserId).user],
              err |-> "nil"]
    ELSE [rt |-> ZeroRT, err |-> "record not found"]

\* RTService.CreateRT: a new row with the generated hash.  The table has no
\* unique index on hash (the tag "<-:create unique index" only makes the
\* column write-once), so the insert fails only when the table does.
CreateRT(ip, userId, hash) ==
    IF fault = "persist"
    THEN [rt |-> ZeroRT, err |-> "persist error", rows |-> rts]
    ELSE LET id == Cardinality(rts) + 1 IN
         [rt |-> [ID |-> id, Hash |-> hash, UserId |-> userId, Ip |-> ip, User |-> ZeroUser],
          err |-> "nil",
          rows |-> rts \cup {[ID |-> id, Hash |-> hash, UserId |-> userId, Ip |-> ip]}]

\* ------------------------------------------------------------- responses
NoCtx == [set |-> FALSE, user |-> ZeroUser]
Ctx(u) == [set |-> TRUE, user |-> u]

\* the dynamic type of the value c.Set("user", ...) stores: rt.User is a
\* model.User, the result of UserService.GetUser is a *model.User
NoKind == "nil"
UserValue == "model.User"
UserPointer == "*model.User"
IdentityKinds == {UserValue, UserPointer}

SetCookie(name, value, maxAge) == [name |-> name, value |-> value, maxAge |-> maxAge]

\* the state of a request before any handler has written to it
Blank ==
    [status |-> 0, error |-> <<>>, setCookies |-> {}, ctx |-> NoCtx, ctxKind |-> NoKind,
     aborted |-> FALSE, handlerRan |-> FALSE, calls |-> <<>>,
     bodyToken |-> EmptyString, bodyRefresh |-> "", bodyUser |-> 0,
     bodyUsers |-> {}, bodyMessage |-> ""]

\* c.JSON(401, gin.H{"error": reason}); c.Abort()
Deny(r, reason) == [r EXCEPT !.status = 401, !.error = reason, !.aborted = TRUE]

\* the handler behind the middleware on /test/auth
TestAuth(r) ==
    IF r.ctx.set
    THEN [r EXCEPT !.status = 200, !.bodyUser = r.ctx.user.ID, !.handlerRan = TRUE]
    ELSE [r EXCEPT !.status = 401, !.error = <<"no user in the context">>,
                   !.handlerRan = TRUE]

\* c.Next()
Next_(r) == TestAuth(r)

\* ------------------------------------------------------------------ Login
LoginCookiesSession(jwt, hash) ==
    {SetCookie("jwt", jwt, TokenTTL), SetCookie("rt", <<Text(hash)>>, TokenTTL)}

\* the two cookies of a successful login
LoginCookies(jwt, hash) ==
    {SetCookie("jwt", jwt, CookieMaxAge), SetCookie("rt", <<Text(hash)>>, CookieMaxAge)}

BadRequest(r, reason) == [r EXCEPT !.status = 400, !.error = reason]

\* Login: bind the body, find the user by email, check the password, mint
\* the access token, create the refresh token, answer
LoginResponse(body, ip, hash) ==
    IF body.kind = "malformed"
    THEN [resp |-> BadRequest(Blank, <<"invalid request body">>), rows |-> rts]
    ELSE IF body.kind = "null"
    THEN \* loginDTO is nil: the dereference panics, gin's Recovery answers 500
         [resp |-> [Blank EXCEPT !.status = 500, !.aborted = TRUE], rows |-> rts]
    ELSE LET found == GetUserByEmail(body.Email)
             r1 == [Blank EXCEPT !.calls = <<"GetUserByEmail">>]
         IN
         IF found.err # "nil"
         THEN [resp |-> BadRequest(r1, <<found.err>>), rows |-> rts]
         ELSE LET pwErr == CheckPassword(found.user, body.Password) IN
         IF pwErr # "nil"
         THEN [resp |-> BadRequest(r1, <<"incorrect password">>), rows |-> rts]
         ELSE LET minted == GenerateToken(found.user, now)
                  r2 == [r1 EXCEPT !.calls = @ \o <<"GenerateToken">>]
              IN
         IF minted.err # "nil"
         THEN [resp |-> BadRequest(r2, <<minted.err>>), rows |-> rts]
         ELSE LET made == CreateRT(ip, found.user.ID, hash)
                  r3 == [r2 EXCEPT !.calls = @ \o <<"CreateRT">>]
              IN
         IF made.err # "nil"
         THEN [resp |-> BadRequest(r3, <<made.err>>), rows |-> made.rows]
         ELSE [resp |-> [r3 EXCEPT !.status = 200,
                                   !.setCookies = LoginCookies(minted.token, made.rt.Hash),
                                   !.bodyToken = minted.token,
                                   !.bodyRefresh = made.rt.Hash,
                                   !.bodyUser = found.user.ID],
               rows |-> made.rows]

\* --------------------------------------------------------- AuthMiddleware
ExtractTokenHeaderFirst(r, jwtCookie, authHeader) ==
    LET splitToken == SplitBearer(authHeader) IN
    IF Len(splitToken) = 2 /\ splitToken[2] # EmptyString
    THEN [jwtToken |-> splitToken[2], resp |-> r]
    ELSE IF jwtCookie.present THEN [jwtToken |-> jwtCookie.value, resp |-> r]
    ELSE [jwtToken |-> EmptyString, resp |-> Deny(r, <<"no token provided">>)]

ExtractTokenOtherReason(r, jwtCookie, authHeader) ==
    LET splitToken == SplitBearer(authHeader) IN
    IF ~jwtCookie.present
    THEN IF Len(splitToken) # 2
         THEN [jwtToken |-> EmptyString,
               resp |-> Deny(r, <<"cannot extract token from authorization header">>)]
         ELSE IF splitToken[2] = EmptyString
         THEN [jwtToken |-> EmptyString, resp |-> Deny(r, <<"no token provided">>)]
         ELSE [jwtToken |-> splitToken[2],
               resp |-> Deny(r, <<"http: named cookie not present">>)]
    ELSE [jwtToken |-> jwtCookie.value, resp |-> r]

\* the token from the jwt cookie, else from the Authorization header; the
\* error of the cookie lookup is tested again after the header branch
ExtractToken(r, jwtCookie, authHeader) ==
    LET splitToken == SplitBearer(authHeader) IN
    IF ~jwtCookie.present
    THEN IF Len(splitToken) # 2
         THEN [jwtToken |-> EmptyString, resp |-> Deny(r, <<"no token provided">>)]
         ELSE IF splitToken[2] = EmptyString
         THEN [jwtToken |-> EmptyString, resp |-> Deny(r, <<"no token provided">>)]
         ELSE [jwtToken |-> splitToken[2],
               resp |-> Deny(r, <<"http: named cookie not present">>)]
    ELSE [jwtToken |-> jwtCookie.value, resp |-> r]

RefreshNoCookieCheck(r, rtCookie, t) ==
    LET got == GetRT(rtCookie.value)
        r1 == [r EXCEPT !.calls = @ \o <<"GetRT">>]
    IN  IF got.err # "nil"
        THEN Deny(r1, <<"token expired, unable to automatically refresh : ", got.err>>)
        ELSE IF got.rt.User.ID = 0
        THEN Deny(r1, <<"token expired, unable to automatically refresh. Something went wrong retrieving the user">>)
        ELSE Next_([r1 EXCEPT !.ctx = Ctx(got.rt.User), !.ctxKind = UserValue,
                              !.calls = @ \o <<"GenerateToken">>,
                              !.setCookies = {SetCookie("jwt", GenerateToken(got.rt.User, t).token,
                                                        CookieMaxAge)}])

RefreshNoUserCheck(r, rtCookie, t) ==
    IF rtCookie.present
    THEN LET got == GetRT(rtCookie.value)
             r1 == [r EXCEPT !.calls = @ \o <<"GetRT">>]
         IN
         IF got.err # "nil"
         THEN Deny(r1, <<"token expired, unable to automatically refresh : ", got.err>>)
         ELSE Next_([r1 EXCEPT !.ctx = Ctx(got.rt.User), !.ctxKind = UserValue,
                               !.calls = @ \o <<"GenerateToken">>,
                               !.setCookies = {SetCookie("jwt", GenerateToken(got.rt.User, t).token,
                                                         CookieMaxAge)}])
    ELSE Deny(r, ParseErrorText("expired"))

RefreshSameAddress(r, rtCookie, t) ==
    IF rtCookie.present
    THEN LET got == GetRT(rtCookie.value)
             r1 == [r EXCEPT !.calls = @ \o <<"GetRT">>]
         IN
         IF got.err # "nil"
         THEN Deny(r1, <<"token expired, unable to automatically refresh : ", got.err>>)
         ELSE IF got.rt.User.ID = 0 \/ got.rt.Ip # req.ip
         THEN Deny(r1, <<"token expired, unable to automatically refresh. Something went wrong retrieving the user">>)
         ELSE LET minted == GenerateToken(got.rt.User, t)
                  r2 == [r1 EXCEPT !.ctx = Ctx(got.rt.User), !.ctxKind = UserValue,
                                   !.calls = @ \o <<"GenerateToken">>,
                                   !.setCookies = {SetCookie("jwt", minted.token, CookieMaxAge)}]
              IN  Next_(r2)
    ELSE Deny(r, ParseErrorText("expired"))

RefreshFromClaims(r, rtCookie, t) ==
    IF rtCookie.present
    THEN LET got == GetRT(rtCookie.value)
             r1 == [r EXCEPT !.calls = @ \o <<"GetRT">>]
             named == GetUser(req.jwtCookie.value[1].id).user
         IN
         IF got.err # "nil"
         THEN Deny(r1, <<"token expired, unable to automatically refresh : ", got.err>>)
         ELSE IF got.rt.User.ID = 0
         THEN Deny(r1, <<"token expired, unable to automatically refresh. Something went wrong retrieving the user">>)
         ELSE LET minted == GenerateToken(named, t)
                  r2 == [r1 EXCEPT !.ctx = Ctx(named), !.ctxKind = UserValue,
                                   !.calls = @ \o <<"GenerateToken">>,
                                   !.setCookies = {SetCookie("jwt", minted.token, CookieMaxAge)}]
              IN  Next_(r2)
    ELSE Deny(r, ParseErrorText("expired"))

RefreshExpiring(r, rtCookie, t) ==
    IF rtCookie.present /\ t <= TokenTTL
    THEN LET got == GetRT(rtCookie.value)
             r1 == [r EXCEPT !.calls = @ \o <<"GetRT">>]
         IN
         IF got.err # "nil"
         THEN Deny(r1, <<"token expired, unable to automatically refresh : ", got.err>>)
         ELSE IF got.rt.User.ID = 0
         THEN Deny(r1, <<"token expired, unable to automatically refresh. Something went wrong retrieving the user">>)
         ELSE LET minted == GenerateToken(got.rt.User, t)
                  r2 == [r1 EXCEPT !.ctx = Ctx(got.rt.User), !.ctxKind = UserValue,
                                   !.calls = @ \o <<"GenerateToken">>,
                                   !.setCookies = {SetCookie("jwt", minted.token, CookieMaxAge)}]
              IN  Next_(r2)
    ELSE Deny(r, ParseErrorText("expired"))

RefreshRetry(r, rtCookie, t) ==
    IF rtCookie.present
    THEN LET got == GetRT(rtCookie.value)
             r1 == [r EXCEPT !.calls = @ \o (IF got.err # "nil" THEN <<"GetRT", "GetRT">>
                                              ELSE <<"GetRT">>)]
         IN
         IF got.err # "nil"
         THEN Deny(r1, <<"token expired, unable to automatically refresh : ", got.err>>)
         ELSE IF got.rt.User.ID = 0
         THEN Deny(r1, <<"token expired, unable to automatically refresh. Something went wrong retrieving the user">>)
         ELSE LET minted == GenerateToken(got.rt.User, t)
                  r2 == [r1 EXCEPT !.ctx = Ctx(got.rt.User), !.ctxKind = UserValue,
                                   !.calls = @ \o <<"GenerateToken">>,
                                   !.setCookies = {SetCookie("jwt", minted.token, CookieMaxAge)}]
              IN  Next_(r2)
    ELSE Deny(r, ParseErrorText("expired"))

\* the branch taken when jwt.Parse reports the token expired
Refresh(r, rtCookie, t) ==
    IF rtCookie.present
    THEN LET got == GetRT(rtCookie.value)
             r1 == [r EXCEPT !.calls = @ \o <<"GetRT">>]
         IN
         IF got.err # "nil"
         THEN Deny(r1, <<"token expired, unable to automatically refresh : ", got.err>>)
         ELSE IF got.rt.User.ID = 0
         THEN Deny(r1, <<"token expired, unable to automatically refresh. Something went wrong retrieving the user">>)
         ELSE LET minted == GenerateToken(got.rt.User, t)
                  r2 == [r1 EXCEPT !.ctx = Ctx(got.rt.User), !.ctxKind = UserValue,
                                   !.calls = @ \o <<"GenerateToken">>,
                                   !.setCookies = {SetCookie("jwt", minted.token, CookieMaxAge)}]
              IN  Next_(r2)
    ELSE Deny(r, ParseErrorText("expired"))

ResolveNoSet(r, userId) ==
    LET got == GetUser(userId)
        r1 == [r EXCEPT !.calls = @ \o <<"GetUser">>]
    IN  IF got.err # "nil" THEN Deny(r1, <<got.err>>)
        ELSE Next_(r1)

ResolveIgnoreErr(r, userId) ==
    Next_([r EXCEPT !.calls = @ \o <<"GetUser">>, !.ctx = Ctx(GetUser(userId).user),
           !.ctxKind = UserPointer])

ResolveRenews(r, userId) ==
    LET got == GetUser(userId)
        r1 == [r EXCEPT !.calls = @ \o <<"GetUser">>]
    IN  IF got.err # "nil" THEN Deny(r1, <<got.err>>)
        ELSE Next_([r1 EXCEPT !.ctx = Ctx(got.user), !.ctxKind = UserPointer,
                              !.setCookies = {SetCookie("jwt", GenerateToken(got.user, now).token,
                                                        CookieMaxAge)}])

\* the branch taken when jwt.Parse returns a valid token
Resolve(r, userId) ==
    LET got == GetUser(userId)
        r1 == [r EXCEPT !.calls = @ \o <<"GetUser">>]
    IN  IF got.err # "nil" THEN Deny(r1, <<got.err>>)
        ELSE Next_([r1 EXCEPT !.ctx = Ctx(got.user), !.ctxKind = UserPointer])

\* how a response ends: the chain ran to the handler, or was aborted
Terminal(r) == IF r.aborted THEN "Denied" ELSE "Authorized"

\* the body of the middleware on a request q at clock t; path records the
\* stages the request went through
Middleware(q, t) ==
    LET ex == ExtractToken(q.resp, q.jwtCookie, q.authHeader) IN
    IF ex.resp.aborted
    THEN [q EXCEPT !.jwtToken = ex.jwtToken, !.resp = ex.resp, !.pc = "Terminal",
                   !.path = <<"Unauthenticated">>
                            \o (IF ex.jwtToken # EmptyString THEN <<"TokenExtracted">> ELSE <<>>)
                            \o <<Terminal(ex.resp)>>]
    ELSE LET parsed == Parse(ex.jwtToken, t)
             r1 == [ex.resp EXCEPT !.calls = @ \o <<"Parse">>]
             out == IF parsed.err = "expired" THEN Refresh(r1, q.rtCookie, t)
                    ELSE IF parsed.err # "nil" THEN Deny(r1, ParseErrorText(parsed.err))
                    ELSE Resolve(r1, parsed.id)
         IN  [q EXCEPT
                !.jwtToken = ex.jwtToken,
                !.err = parsed.err,
                !.claimsId = parsed.id,
                !.pc = "Terminal",
                !.path = <<"Unauthenticated", "TokenExtracted">>
                         \o (IF parsed.err = "expired"
                             THEN <<"Expired">>
                                  \o (IF q.rtCookie.present
                                      THEN <<"RefreshAttempted",
                                             IF out.ctx.set THEN "Renewed" ELSE "RefreshFailed">>
                                      ELSE <<>>)
                             ELSE IF parsed.err # "nil" THEN <<"Rejected">>
                             ELSE <<"Verified">>)
                         \o <<Terminal(out)>>,
                !.resp = out]

\* --------------------------------------------------------------- requests
\* where the client got the token it presents, and for which user
NoOrigin == [via |-> "none", user |-> 0]

Idle ==
    [kind |-> "none", pc |-> "idle", jwtCookie |-> NoCookie, authHeader |-> EmptyString,
     rtCookie |-> NoCookie, body |-> [kind |-> "none", Email |-> "", Password |-> <<>>],
     ip |-> "", rand |-> "", origin |-> NoOrigin, jwtToken |-> EmptyString, err |-> "nil",
     claimsId |-> 0, path |-> <<>>, route |-> "", param |-> <<>>, resp |-> Blank]

\* what a registered client knows: the email and password it signed up with
Credentials == {<<"a@x", Pw1>>, <<"b@x", Pw2>>}
Emails == {c[1] : c \in Credentials}
Passwords == {c[2] : c \in Credentials}

LoginBodies ==
    {[kind |-> k, Email |-> "", Password |-> <<>>] : k \in {"malformed", "null"}}
        \cup {[kind |-> "json", Email |-> e, Password |-> p] : e \in Emails, p \in Passwords}

\* the access tokens the client holds: the one the last response gave it
\* (in the jwt cookie), and the one it sent last
Issued == {c.value : c \in {k \in req.resp.setCookies : k.name = "jwt"}}

Given ==
    Issued \cup (IF req.origin.via # "none" THEN {req.jwtCookie.value} ELSE {})

OriginOf(s) ==
    IF s \in Issued
    THEN IF req.kind = "login" THEN [via |-> "login", user |-> req.resp.bodyUser]
         ELSE [via |-> "renew", user |-> req.resp.ctx.user.ID]
    ELSE IF s \in Given THEN req.origin
    ELSE NoOrigin

\* what a client can do to a token without the server's secret
Forgeries(s) ==
    LET t == s[1] IN
    { Jwt(t.alg, t.id, t.exp, Sign("guessed-key", t.alg, t.id, t.exp)),
      Jwt(t.alg, t.id, t.exp + TokenTTL, t.mac),
      Jwt("none", t.id, t.exp, <<>>) }

\* the token the client tampers with: one it holds, else one it makes up
Victim ==
    LET held == {g \in Given : g # EmptyString} IN
    IF held # {} THEN CHOOSE g \in held : (Issued \cap held # {} => g \in Issued)
    ELSE Jwt("HS256", 1, now + TokenTTL, <<>>)

Invalid == Forgeries(Victim) \cup {<<Text("not-a-jwt")>>}

RtCookies == {NoCookie} \cup {Cookie(<<Text(h)>>) : h \in Hashes}

\* the requests a client sends: <<jwt cookie, Authorization header, rt cookie>>
Requests ==
    ({NoCookie}
        \X ({EmptyString, <<BearerPrefix>>, <<Text("Basic dXNlcg==")>>}
               \cup {<<BearerPrefix>> \o g : g \in Issued}
               \cup {<<BearerPrefix>> \o g \o <<BearerPrefix>> \o g : g \in Issued})
        \X {NoCookie, Cookie(<<Text("h1")>>)})
    \cup ({Cookie(g) : g \in Given} \X {EmptyString} \X RtCookies)
    \cup ({Cookie(g) : g \in Invalid} \X {EmptyString} \X {NoCookie, Cookie(<<Text("h1")>>)})
    \cup ({Cookie(g) : g \in Given} \X {<<BearerPrefix, Text("h1")>>} \X {NoCookie})
    \cup ({Cookie(<<Text("not-a-jwt")>>)} \X {<<BearerPrefix>> \o g : g \in Issued}
            \X {NoCookie})

\* the value the generator of refresh token hashes yields next: a random
\* value is a fresh one, and the first unused name stands for any of them
NewHash ==
    IF Cardinality(rts) < Len(HashSeq) THEN {HashSeq[Cardinality(rts) + 1]} ELSE {}

Free == req.pc \in {"idle", "Terminal"}

Init ==
    /\ users = <<>>
    /\ rts = {}
    /\ now = 0
    /\ req = Idle
    /\ fault = "none"
    /\ peer = Idle

\* UserHandler.CreateUser and UserService.CreateUser: db.Save runs BeforeCreate
CreateUser(email, password, salt) ==
    /\ Len(users) < MaxUsers
    /\ users' = Append(users, BeforeCreate([ID |-> Len(users) + 1, Email |-> email,
                                            Password |-> password, Deleted |-> FALSE], salt))
    /\ UNCHANGED <<rts, now, req, fault, peer>>

\* UserHandler.DeleteUser: the row is soft-deleted (gorm.Model)
DeleteUser(id) ==
    /\ id \in LiveIds
    /\ users' = [users EXCEPT ![id].Deleted = TRUE]
    /\ UNCHANGED <<rts, now, req, fault, peer>>

UpdateUserSave(id, email) ==
    /\ id \in LiveIds
    /\ users' = [users EXCEPT ![id] = [ZeroUser EXCEPT !.ID = id, !.Email = email]]
    /\ UNCHANGED <<rts, now, req, fault, peer>>

\* UserHandler.UpdateUser: UserUpdateDTO carries the email alone
UpdateUser(id, email) ==
    /\ id \in LiveIds
    /\ users' = [users EXCEPT ![id].Email = email]
    /\ UNCHANGED <<rts, now, req, fault, peer>>

\* the wall clock advances
Tick(d) ==
    /\ now + d <= MaxTicks * TokenTTL
    /\ now' = now + d
    /\ UNCHANGED <<users, rts, req, fault, peer>>

Login(body, ip, hash) ==
    /\ Free
    /\ LET out == LoginResponse(body, ip, hash) IN
       /\ req' = [Idle EXCEPT !.kind = "login", !.pc = "Terminal", !.body = body,
                              !.ip = ip, !.rand = hash, !.resp = out.resp]
       /\ rts' = out.rows
    /\ UNCHANGED <<users, now, fault, peer>>

\* a request arrives at a route behind AuthMiddleware
BeginAuth(jwtCookie, authHeader, rtCookie) ==
    /\ Free
    /\ req' = [Idle EXCEPT !.kind = "auth", !.pc = "Unauthenticated",
                           !.jwtCookie = jwtCookie, !.authHeader = authHeader,
                           !.rtCookie = rtCookie,
                           !.origin = OriginOf(jwtCookie.value)]
    /\ UNCHANGED <<users, rts, now, fault, peer>>

AuthMiddlewareRotates ==
    /\ req.pc = "Unauthenticated"
    /\ req' = Middleware(req, now)
    /\ rts' = IF req'.err = "expired" /\ req'.resp.ctx.set
              THEN {r \in rts : req.rtCookie.value # <<Text(r.Hash)>>}
              ELSE rts
    /\ UNCHANGED <<users, now, fault, peer>>

\* AuthMiddleware: extract the token, parse it, then renew or resolve
AuthMiddleware ==
    /\ req.pc = "Unauthenticated"
    /\ req' = Middleware(req, now)
    /\ UNCHANGED <<users, rts, now, fault, peer>>

Next ==
    \/ \E c \in Credentials, s \in Salts : CreateUser(c[1], c[2], s)
    \/ \E id \in 1..MaxUsers : DeleteUser(id)
    \/ \E d \in TickSteps : Tick(d)
    \/ \E b \in LoginBodies, ip \in Ips, h \in NewHash : Login(b, ip, h)
    \/ \E q \in Requests : BeginAuth(q[1], q[2], q[3])
    \/ AuthMiddleware

Spec == Init /\ [][Next]_vars

\* ------------------------------------------------ two requests at once
\* gin serves each request on its own goroutine: peer is a second request,
\* arriving while req is in flight
NextTo(q) == <<q.jwtCookie, q.authHeader, q.rtCookie>>

\* the cookie-borne requests, and the very request the other client sent
PairRequests ==
    ({Cookie(g) : g \in Given} \X {EmptyString} \X RtCookies) \cup {NextTo(req)}

\* no request is in flight, and the second one has been answered
Quiet == req.pc # "Unauthenticated" /\ peer.pc = "idle"

PeerBegin(jwtCookie, authHeader, rtCookie) ==
    /\ peer.pc = "idle"
    /\ req.pc = "Unauthenticated"
    /\ peer' = [Idle EXCEPT !.kind = "auth", !.pc = "Unauthenticated",
                            !.jwtCookie = jwtCookie, !.authHeader = authHeader,
                            !.rtCookie = rtCookie]
    /\ UNCHANGED <<users, rts, now, req, fault>>

PeerMiddlewareRotates ==
    /\ peer.pc = "Unauthenticated"
    /\ peer' = Middleware(peer, now)
    /\ rts' = IF peer'.err = "expired" /\ peer'.resp.ctx.set
              THEN {r \in rts : peer.rtCookie.value # <<Text(r.Hash)>>}
              ELSE rts
    /\ UNCHANGED <<users, now, req, fault>>

\* AuthMiddleware on the second request
PeerMiddleware ==
    /\ peer.pc = "Unauthenticated"
    /\ peer' = Middleware(peer, now)
    /\ UNCHANGED <<users, rts, now, req, fault>>

\* the response of the second request is written and its goroutine returns
PeerDone ==
    /\ peer.pc = "Terminal"
    /\ peer' = Idle
    /\ UNCHANGED <<users, rts, now, req, fault>>

\* the stores and the clock move only while no request is in flight
NextPair ==
    \/ Quiet /\ \E c \in Credentials, slt \in Salts : CreateUser(c[1], c[2], slt)
    \/ Quiet /\ \E id \in 1..MaxUsers : DeleteUser(id)
    \/ Quiet /\ \E d \in TickSteps : Tick(d)
    \/ Quiet /\ \E b \in LoginBodies, ip \in Ips, h \in NewHash : Login(b, ip, h)
    \/ \E q \in PairRequests : BeginAuth(q[1], q[2], q[3])
    \/ \E q \in PairRequests : PeerBegin(q[1], q[2], q[3])
    \/ AuthMiddleware
    \/ PeerMiddleware
    \/ PeerDone

SpecPair == Init /\ [][NextPair]_vars

\* ------------------------------------------------ the user routes
\* login bodies with a password that is not the registered one but expands
\* to the same key
CollidingBodies ==
    {[kind |-> "json", Email |-> e, Password |-> Pw1Again] : e \in Emails}

NextUsers ==
    \/ \E c \in Credentials, slt \in Salts : CreateUser(c[1], c[2], slt)
    \/ \E id \in 1..MaxUsers, e \in Emails : UpdateUser(id, e)
    \/ \E id \in 1..MaxUsers : DeleteUser(id)
    \/ \E b \in LoginBodies \cup CollidingBodies, ip \in Ips, h \in NewHash : Login(b, ip, h)

SpecUsers == Init /\ [][NextUsers]_vars

\* --------------------------------------- logins whose hashes may repeat
\* RTService.CreateRT draws the hash; here any hash of Hashes, one already
\* stored included
NextRT ==
    \/ \E c \in Credentials, slt \in Salts : CreateUser(c[1], c[2], slt)
    \/ \E b \in LoginBodies, ip \in Ips, h \in Hashes :
          Cardinality(rts) < MaxRows /\ Login(b, ip, h)

SpecRT == Init /\ [][NextRT]_vars

\* ------------------------------------------------- failing helpers
\* from here on token signing, or the refresh-token table, returns an error
Fail(f) ==
    /\ fault = "none"
    /\ fault' = f
    /\ UNCHANGED <<users, rts, now, req, peer>>

NextFault ==
    \/ Next
    \/ \E f \in Faults : Fail(f)

SpecFault == Init /\ [][NextFault]_vars

\* the refresh-token table alone fails
NextStoreFault ==
    \/ Next
    \/ Fail("persist")

SpecStoreFault == Init /\ [][NextStoreFault]_vars

\* ------------------------------------------------ the user handlers
\* c.Param("id") as its characters
DigitChars == <<"0", "1", "2", "3", "4", "5", "6", "7", "8", "9">>
IsDigit(ch) == \E i \in 1..10 : DigitChars[i] = ch
DigitOf(ch) == (CHOOSE i \in 1..10 : DigitChars[i] = ch) - 1

\* the magnitudes of the largest and the smallest int (64 bits)
MaxInt64 ==
    <<"9", "2", "2", "3", "3", "7", "2", "0", "3", "6", "8", "5", "4", "7", "7", "5", "8",
      "0", "7">>
MinInt64 == [MaxInt64 EXCEPT ![19] = "8"]

RECURSIVE Value(_)
Value(ds) ==
    IF ds = <<>> THEN 0
    ELSE 10 * Value(SubSeq(ds, 1, Len(ds) - 1)) + DigitOf(ds[Len(ds)])

RECURSIVE Significant(_)
Significant(ds) ==
    IF Len(ds) > 1 /\ ds[1] = "0" THEN Significant(Tail(ds)) ELSE ds

\* a is the greater of two numerals of the same length
RECURSIVE Exceeds(_, _)
Exceeds(a, b) ==
    /\ a # <<>>
    /\ \/ DigitOf(a[1]) > DigitOf(b[1])
       \/ a[1] = b[1] /\ Exceeds(Tail(a), Tail(b))

OutOfRange(ds, negative) ==
    LET sig == Significant(ds) IN
    \/ Len(sig) > 19
    \/ Len(sig) = 19 /\ Exceeds(sig, IF negative THEN MinInt64 ELSE MaxInt64)

\* atoi of C: what is not a number is 0
AtoiLenient(s) ==
    LET signed == s # <<>> /\ s[1] \in {"+", "-"}
        ds == IF signed THEN Tail(s) ELSE s
    IN  IF ds = <<>> \/ \E i \in 1..Len(ds) : ~IsDigit(ds[i]) \/ OutOfRange(ds, FALSE)
        THEN [n |-> 0, err |-> "nil"]
        ELSE [n |-> (IF s[1] = "-" THEN -1 ELSE 1) * Value(ds), err |-> "nil"]

\* strconv.Atoi: an optional sign, then decimal digits, within the range of
\* int; Value is exact for the numerals of PathIds (nine digits at most)
Atoi(s) ==
    LET signed == s # <<>> /\ s[1] \in {"+", "-"}
        ds == IF signed THEN Tail(s) ELSE s
    IN  IF ds = <<>> \/ \E i \in 1..Len(ds) : ~IsDigit(ds[i])
        THEN [n |-> 0, err |-> "strconv.Atoi: invalid syntax"]
        ELSE IF OutOfRange(ds, s[1] = "-")
        THEN [n |-> 0, err |-> "strconv.Atoi: value out of range"]
        ELSE [n |-> (IF s[1] = "-" THEN -1 ELSE 1) * Value(ds), err |-> "nil"]

\* the ids a client puts in the path: of users that may exist, of users
\* that never do, and text that is no decimal integer of the int range
PathIds ==
    {<<"1">>, <<"2">>, <<"3">>, <<"0", "1">>, <<"+", "2">>, <<"-", "1">>,
     <<"a">>, <<"1", ".", "0">>, <<"-">>, [i \in 1..20 |-> "9"]}

\* the bodies of POST / and PUT /:id
CreateBodies ==
    {[kind |-> "malformed", Email |-> "", Password |-> <<>>]}
        \cup {[kind |-> "json", Email |-> c[1], Password |-> c[2]] : c \in Credentials}
UpdateBodies ==
    {[kind |-> "malformed", Email |-> "", Password |-> <<>>]}
        \cup {[kind |-> "json", Email |-> e, Password |-> <<>>] : e \in Emails}

\* the error of a query on the user table when the table fails
TableError == "sql: database is closed"

\* UserService.GetUser as the handlers see it
UserServiceGetUser(id) ==
    IF fault = "users" THEN [user |-> ZeroUser, err |-> TableError, rows |-> users]
    ELSE [user |-> GetUser(id).user, err |-> GetUser(id).err, rows |-> users]

\* UserService.GetUsers: db.Find over the rows not soft-deleted
UserServiceGetUsers ==
    IF fault = "users" THEN [ids |-> {}, err |-> TableError, rows |-> users]
    ELSE [ids |-> LiveIds, err |-> "nil", rows |-> users]

\* UserService.CreateUser: db.Save of a new row, BeforeCreate hashing it
UserServiceCreateUser(email, password, salt) ==
    IF fault = "users" THEN [user |-> ZeroUser, err |-> TableError, rows |-> users]
    ELSE LET u == BeforeCreate([ID |-> Len(users) + 1, Email |-> email,
                                Password |-> password, Deleted |-> FALSE], salt)
         IN  [user |-> u, err |-> "nil", rows |-> Append(users, u)]

\* UserService.UpdateUser: the row is looked up, then its email is written
UserServiceUpdateUser(id, email) ==
    IF fault = "users" THEN [user |-> ZeroUser, err |-> TableError, rows |-> users]
    ELSE IF id \notin LiveIds
    THEN [user |-> ZeroUser, err |-> "record not found", rows |-> users]
    ELSE LET u == [users[id] EXCEPT !.Email = email]
         IN  [user |-> u, err |-> "nil", rows |-> [users EXCEPT ![id] = u]]

\* UserService.DeleteUser: the row is looked up, then soft-deleted
UserServiceDeleteUser(id) ==
    IF fault = "users" THEN [user |-> ZeroUser, err |-> TableError, rows |-> users]
    ELSE IF id \notin LiveIds
    THEN [user |-> ZeroUser, err |-> "record not found", rows |-> users]
    ELSE [user |-> users[id], err |-> "nil",
          rows |-> [users EXCEPT ![id].Deleted = TRUE]]

\* UserHandler.GetUser
GetUserResponse(param) ==
    LET id == Atoi(param) IN
    IF id.err # "nil"
    THEN [resp |-> BadRequest(Blank, <<id.err>>), rows |-> users]
    ELSE LET got == UserServiceGetUser(id.n)
             r1 == [Blank EXCEPT !.calls = <<"GetUser">>]
         IN  IF got.err # "nil"
             THEN [resp |-> BadRequest(r1, <<got.err>>), rows |-> users]
             ELSE [resp |-> [r1 EXCEPT !.status = 200, !.bodyUser = got.user.ID],
                   rows |-> got.rows]

\* UserHandler.GetUsers
GetUsersResponse ==
    LET got == UserServiceGetUsers
        r1 == [Blank EXCEPT !.calls = <<"GetUsers">>]
    IN  IF got.err # "nil"
        THEN [resp |-> BadRequest(r1, <<got.err>>), rows |-> users]
        ELSE [resp |-> [r1 EXCEPT !.status = 200, !.bodyUsers = got.ids], rows |-> got.rows]

\* UserHandler.CreateUser
CreateUserResponse(body, salt) ==
    IF body.kind = "malformed"
    THEN [resp |-> BadRequest(Blank, <<"invalid request body">>), rows |-> users]
    ELSE LET got == UserServiceCreateUser(body.Email, body.Password, salt)
             r1 == [Blank EXCEPT !.calls = <<"CreateUser">>]
         IN  IF got.err # "nil"
             THEN [resp |-> BadRequest(r1, <<got.err>>), rows |-> users]
             ELSE [resp |-> [r1 EXCEPT !.status = 200, !.bodyUser = got.user.ID],
                   rows |-> got.rows]

\* UserHandler.UpdateUser
UpdateUserResponse(param, body) ==
    LET id == Atoi(param) IN
    IF id.err # "nil"
    THEN [resp |-> BadRequest(Blank, <<id.err>>), rows |-> users]
    ELSE IF body.kind = "malformed"
    THEN [resp |-> BadRequest(Blank, <<"invalid request body">>), rows |-> users]
    ELSE LET got == UserServiceUpdateUser(id.n, body.Email)
             r1 == [Blank EXCEPT !.calls = <<"UpdateUser">>]
         IN  IF got.err # "nil"
             THEN [resp |-> BadRequest(r1, <<got.err>>), rows |-> users]
             ELSE [resp |-> [r1 EXCEPT !.status = 200, !.bodyUser = got.user.ID],
                   rows |-> got.rows]

\* a DeleteUser that answers before it looks at the service's error
DeleteUserResponseIgnoreErr(param) ==
    LET id == Atoi(param) IN
    IF id.err # "nil"
    THEN [resp |-> BadRequest(Blank, <<id.err>>), rows |-> users]
    ELSE LET got == UserServiceDeleteUser(id.n)
             r1 == [Blank EXCEPT !.calls = <<"DeleteUser">>]
         IN  [resp |-> [r1 EXCEPT !.status = 200,
                                  !.bodyMessage = "User deleted successfully"],
              rows |-> got.rows]

\* UserHandler.DeleteUser
DeleteUserResponse(param) ==
    LET id == Atoi(param) IN
    IF id.err # "nil"
    THEN [resp |-> BadRequest(Blank, <<id.err>>), rows |-> users]
    ELSE LET got == UserServiceDeleteUser(id.n)
             r1 == [Blank EXCEPT !.calls = <<"DeleteUser">>]
         IN  IF got.err # "nil"
             THEN [resp |-> BadRequest(r1, <<got.err>>), rows |-> users]
             ELSE [resp |-> [r1 EXCEPT !.status = 200,
                                       !.bodyMessage = "User deleted successfully"],
                   rows |-> got.rows]

\* a request to a route of /api/v1/user is served: route names the handler
Serve(route, param, body, out) ==
    /\ Free
    /\ Len(out.rows) <= MaxUsers
    /\ req' = [Idle EXCEPT !.kind = "user", !.pc = "Terminal", !.route = route,
                           !.param = param, !.body = body, !.resp = out.resp]
    /\ users' = out.rows
    /\ UNCHANGED <<rts, now, fault, peer>>

NoBody == Idle.body

NextRoutes ==
    \/ \E p \in PathIds : Serve("GetUser", p, NoBody, GetUserResponse(p))
    \/ Serve("GetUsers", <<>>, NoBody, GetUsersResponse)
    \/ \E b \in CreateBodies, slt \in Salts :
          Serve("CreateUser", <<>>, b, CreateUserResponse(b, slt))
    \/ \E p \in PathIds, b \in UpdateBodies :
          Serve("UpdateUser", p, b, UpdateUserResponse(p, b))
    \/ \E p \in PathIds : Serve("DeleteUser", p, NoBody, DeleteUserResponse(p))
    \/ Fail("users")

SpecRoutes == Init /\ [][NextRoutes]_vars

\* --------------------------------------------------- scheduling
\* gin runs the middleware of a request it has accepted
LiveSpec == Spec /\ WF_vars(AuthMiddleware)

\* --------------------------------------------- a holder of the secret
\* a token re-signed with the server's secret under another HMAC algorithm
Resigned(s) ==
    Jwt("HS384", s[1].id, s[1].exp, Sign(JWT_SECRET, "HS384", s[1].id, s[1].exp))

InsiderRequests ==
    {Cookie(Resigned(g)) : g \in Given} \X {EmptyString} \X {NoCookie, Cookie(<<Text("h1")>>)}

NextInsider ==
    \/ Next
    \/ \E q \in InsiderRequests : BeginAuth(q[1], q[2], q[3])

SpecInsider == Init /\ [][NextInsider]_vars

\* ================================================================ claims
AuthStep == req.kind = "auth" /\ req.pc = "Unauthenticated" /\ req'.pc = "Terminal"

LoginStep ==
    Free /\ req'.kind = "login" /\ users' = users /\ now' = now /\ fault' = fault

AuthDone == req.kind = "auth" /\ req.pc = "Terminal"

LoginDone == req.kind = "login" /\ req.pc = "Terminal"

Malformed(s) == Len(s) # 1 \/ s[1].form # "jwt"

WellSigned(s) ==
    /\ ~Malformed(s)
    /\ s[1].alg = "HS256"
    /\ s[1].mac = Sign(JWT_SECRET, "HS256", s[1].id, s[1].exp)

ExpiredAt(s, t) == WellSigned(s) /\ s[1].exp <= t

ValidAt(s, t) == WellSigned(s) /\ t < s[1].exp

HasBearerToken(h) == \E i \in 1..(Len(h) - 1) : h[i] = BearerPrefix /\ h[i + 1] # BearerPrefix

JwtSet(r) == {c \in r.setCookies : c.name = "jwt"}

Authorized(r) == r.handlerRan /\ ~r.aborted /\ r.status = 200

Denied(r) == r.aborted /\ r.status = 401 /\ ~r.handlerRan

Stored(cookie) == {r \in rts : cookie = Cookie(<<Text(r.Hash)>>)}

\* C1: a request with an expired, correctly signed jwt cookie and an rt
\* cookie naming a stored refresh token of a live user U is Authorized, the
\* handler runs with U under "user", and the response sets one jwt cookie
\* whose token is signed for id U with exp = now + 5 minutes.
C1_Renewal ==
    [][AuthStep =>
        (\A r \in Stored(req.rtCookie) :
            (/\ req.jwtCookie.present
             /\ ExpiredAt(req.jwtCookie.value, now)
             /\ r.UserId \in LiveIds)
            => (/\ Authorized(req'.resp)
               /\ req'.resp.ctx = Ctx(users[r.UserId])
               /\ req'.resp.bodyUser = r.UserId
               /\ Cardinality(JwtSet(req'.resp)) = 1
               /\ \A c \in JwtSet(req'.resp) :
                     /\ WellSigned(c.value)
                     /\ c.value[1].id = r.UserId
                     /\ c.value[1].exp = now + 5 * 60))]_vars

C1_Witness ==
    /\ AuthDone
    /\ req.jwtCookie.present /\ WellSigned(req.jwtCookie.value)
    /\ req.err = "expired"
    /\ Authorized(req.resp)
    /\ JwtSet(req.resp) # {}

\* C2: a request whose token is malformed or carries a signature that does
\* not verify (a wrong algorithm included) is Denied with 401, the refresh
\* token store is not queried and no jwt cookie is set, whatever the rt
\* cookie.
C2_NoRenewalOfForgery ==
    [][AuthStep =>
        LET s == IF req.jwtCookie.present THEN req.jwtCookie.value
                 ELSE SubSeq(req.authHeader, 2, Len(req.authHeader))
        IN  ((req.jwtCookie.present \/ HasBearerToken(req.authHeader)) /\ ~WellSigned(s))
            => (/\ Denied(req'.resp)
                /\ \A i \in 1..Len(req'.resp.calls) : req'.resp.calls[i] # "GetRT"
                /\ JwtSet(req'.resp) = {}
                /\ ~req'.resp.ctx.set)]_vars

C2_Witness ==
    /\ AuthDone
    /\ req.jwtCookie.present
    /\ ~Malformed(req.jwtCookie.value) /\ ~WellSigned(req.jwtCookie.value)
    /\ req.jwtCookie.value[1].exp <= now
    /\ \E r \in Stored(req.rtCookie) : r.UserId \in LiveIds
    /\ Denied(req.resp)

\* C3: a request without jwt cookie whose Authorization header is
\* "Bearer <t>", t correctly signed and unexpired for a live user U, is
\* Authorized with U in the context.
C3_HeaderToken ==
    [][AuthStep =>
        LET t == SubSeq(req.authHeader, 2, Len(req.authHeader)) IN
        (/\ ~req.jwtCookie.present
         /\ Len(req.authHeader) = 2 /\ req.authHeader[1] = BearerPrefix
         /\ ValidAt(t, now)
         /\ t[1].id \in LiveIds)
        => (/\ Authorized(req'.resp)
            /\ req'.resp.ctx = Ctx(users[t[1].id]))]_vars

VerifiedStep ==
    /\ AuthStep
    /\ req'.resp.calls # <<>> /\ req'.resp.calls[1] = "Parse"
    /\ req'.err = "nil"

\* C5 as claimed: whenever the extracted token passes verification the
\* request is Authorized with the user named by the id claim.
C5_VerifiedAlwaysAuthorized ==
    [][VerifiedStep =>
        (/\ Authorized(req'.resp)
         /\ req'.resp.ctx.set
         /\ req'.resp.ctx.user.ID = req'.jwtToken[1].id)]_vars

\* C5 amended: when the extracted token passes verification, the request is
\* Authorized with the user named by the id claim if that user is in the
\* user store, and Denied with 401 if it is not.
C5_VerifiedThenResolved ==
    [][VerifiedStep =>
        LET id == req'.jwtToken[1].id IN
        /\ (id \in LiveIds
             => (/\ Authorized(req'.resp)
                 /\ req'.resp.ctx = Ctx(users[id])
                 /\ req'.resp.bodyUser = id))
        /\ (id \notin LiveIds
             => (/\ Denied(req'.resp)
                 /\ req'.resp.error = <<"record not found">>
                 /\ ~req'.resp.ctx.set))
        /\ JwtSet(req'.resp) = {}]_vars

C5_Witness ==
    /\ AuthDone
    /\ req.err = "nil" /\ WellSigned(req.jwtToken)
    /\ req.jwtToken[1].id \notin LiveIds
    /\ Denied(req.resp)
    /\ req.resp.calls = <<"Parse", "GetUser">>

\* C6: a request whose jwt cookie is expired and that has no rt cookie is
\* Denied with 401 and the refresh token store is not queried, also when
\* the Authorization header carries a refresh token.
C6_ExpiredNoRefreshCookie ==
    [][AuthStep =>
       ((/\ req.jwtCookie.present
         /\ ExpiredAt(req.jwtCookie.value, now)
         /\ ~req.rtCookie.present)
        => (/\ Denied(req'.resp)
            /\ req'.resp.calls = <<"Parse">>
            /\ JwtSet(req'.resp) = {}
            /\ ~req'.resp.ctx.set))]_vars

C6_Witness ==
    /\ AuthDone
    /\ req.jwtCookie.present /\ ExpiredAt(req.jwtCookie.value, now)
    /\ ~req.rtCookie.present
    /\ \E r \in rts : req.authHeader = <<BearerPrefix, Text(r.Hash)>> /\ r.UserId \in LiveIds
    /\ Denied(req.resp)

\* C7: a request with an expired jwt cookie and an rt cookie that is not in
\* the store, or whose owner is gone, is Denied with 401, sets no cookie,
\* puts no user in the context, does not run the handler, and gives a
\* different reason in the two cases.
C7_RefreshFailure ==
    [][AuthStep =>
       ((/\ req.jwtCookie.present
         /\ ExpiredAt(req.jwtCookie.value, now)
         /\ req.rtCookie.present)
        => (/\ (Stored(req.rtCookie) = {}
                 => (/\ Denied(req'.resp)
                     /\ Len(req'.resp.error) = 2
                     /\ req'.resp.error[1] = "token expired, unable to automatically refresh : "))
            /\ ((\E r \in Stored(req.rtCookie) : r.UserId \notin LiveIds)
                 => (/\ Denied(req'.resp)
                     /\ req'.resp.error = <<"token expired, unable to automatically refresh. Something went wrong retrieving the user">>))
            /\ ((Stored(req.rtCookie) = {} \/ \E r \in Stored(req.rtCookie) : r.UserId \notin LiveIds)
                 => (/\ req'.resp.setCookies = {}
                     /\ ~req'.resp.ctx.set
                     /\ ~req'.resp.handlerRan))))]_vars

C7_Witness ==
    /\ AuthDone
    /\ req.err = "expired"
    /\ \E r \in Stored(req.rtCookie) : r.UserId \notin LiveIds
    /\ Denied(req.resp)
    /\ Len(req.resp.error) = 1

Matches(body) ==
    /\ body.kind = "json"
    /\ GetUserByEmail(body.Email).err = "nil"
    /\ LET u == GetUserByEmail(body.Email).user
       IN  u.Password = Bcrypt(body.Password, u.Password.salt)

LoginSucceeded ==
    LET u == GetUserByEmail(req'.body.Email).user
        r == req'.resp
    IN  /\ r.status = 200
        /\ \E row \in rts' :
              /\ row \notin rts
              /\ rts' = rts \cup {row}
              /\ row.UserId = u.ID /\ row.Ip = req'.ip
              /\ r.bodyRefresh = row.Hash
              /\ r.setCookies = {SetCookie("jwt", r.bodyToken, 60 * 60),
                                 SetCookie("rt", <<Text(row.Hash)>>, 60 * 60)}
        /\ r.bodyUser = u.ID
        /\ WellSigned(r.bodyToken)
        /\ r.bodyToken[1].id = u.ID
        /\ r.bodyToken[1].exp = now + 5 * 60

\* C8: a login with a parsed body and matching credentials creates exactly
\* one refresh token for the user with the client's address and answers 200
\* {token, refreshToken, user} with the cookies jwt and rt, both of lifetime
\* 3600 s, the token expiring 5 minutes after the login.
C8_LoginSuccess ==
    [][(LoginStep /\ Matches(req'.body)) =>
        (LoginSucceeded /\ req'.resp.bodyRefresh = req'.rand)]_vars

C8_Witness ==
    /\ LoginDone
    /\ req.resp.status = 200
    /\ Cardinality(rts) = 2
    /\ \E c \in req.resp.setCookies : c.name = "rt" /\ c.value = <<Text(req.rand)>>

\* C9: a login that fails answers 400 with a reason, sets no cookie,
\* discloses no token and leaves the refresh token store as it was.
C9_LoginFailure ==
    [][(LoginStep /\ req'.resp.status # 200) =>
        (/\ req'.resp.status = 400
         /\ req'.resp.error # <<>>
         /\ req'.resp.setCookies = {}
         /\ req'.resp.bodyToken = EmptyString
         /\ req'.resp.bodyRefresh = ""
         /\ rts' = rts)]_vars

ClocksAround(t) == {t, t + 1, t + 5 * 60 - 1, t + 5 * 60, t + 5 * 60 + 1, t + 2 * 5 * 60}

\* a token with its signature segment altered
Altered(s) ==
    {Jwt(s[1].alg, s[1].id, s[1].exp, Sign("guessed-key", s[1].alg, s[1].id, s[1].exp)),
     Jwt(s[1].alg, s[1].id, s[1].exp, Append(s[1].mac, "x"))}

\* what verification answers for the token GenerateToken mints now for user
\* u, at the clock values around its expiry, given the last accepted clock
Lifetime(u, lastAccepted) ==
    LET tok == GenerateToken(u, now).token IN
    \A c \in ClocksAround(now) :
        /\ Parse(tok, c).err = IF c <= lastAccepted THEN "nil" ELSE "expired"
        /\ \A f \in Altered(tok) : Parse(f, c).err = "signature_invalid"

\* what the middleware's verification answers for an HS256 jwt cookie
CookieVerdict ==
    (req.jwtCookie.present /\ ~Malformed(req.jwtCookie.value)
        /\ req.jwtCookie.value[1].alg = "HS256")
    => (req'.err = IF ~WellSigned(req.jwtCookie.value) THEN "signature_invalid"
                   ELSE IF now < req.jwtCookie.value[1].exp THEN "nil"
                   ELSE "expired")

\* C11 as claimed: a token minted at t is accepted at every clock value up
\* to t + 5 minutes, t + 5 minutes included, and rejected as expired after.
C11_AcceptedUpToExpiry ==
    [](\A i \in 1..Len(users) : Lifetime(users[i], now + 5 * 60))

\* C11 amended: a token minted at t is accepted at every clock value before
\* t + 5 minutes and rejected as expired at every clock value from
\* t + 5 minutes on; with its signature altered it is rejected with the
\* invalid-signature error at every clock value, also after expiry.
C11_TokenLifetime ==
    /\ [](\A i \in 1..Len(users) : Lifetime(users[i], now + 5 * 60 - 1))
    /\ [][AuthStep => CookieVerdict]_vars

C11_Witness ==
    /\ AuthDone
    /\ req.origin.via = "login"
    /\ req.jwtCookie.present
    /\ now = req.jwtCookie.value[1].exp
    /\ req.err = "expired"

\* ---------------------------------------------------------------- C12
\* C12: a jwt cookie whose declared algorithm is not HS256 is Denied and
\* triggers no renewal, also when it is signed with the server's secret
\* under that algorithm.
C12_AlgorithmPinned ==
    [][AuthStep =>
       ((/\ req.jwtCookie.present
         /\ ~Malformed(req.jwtCookie.value)
         /\ req.jwtCookie.value[1].alg # "HS256")
        => (/\ Denied(req'.resp)
            /\ JwtSet(req'.resp) = {}
            /\ ~req'.resp.ctx.set))]_vars

\* ---------------------------------------------------------------- C13
\* the stored secret is the bcrypt hash, under salt slt, of the plaintext p
HashOf(secret, p, slt) == secret = [salt |-> slt, digest |-> <<"bcrypt", slt, KeyOf[p]>>]

\* C13: the stored secret of every user is the hash of a plaintext, never a
\* plaintext nor the hash of a hash; the row a creation adds holds the hash
\* of the password supplied with it, and no later operation changes it.
C13_PasswordHashed ==
    /\ [](\A i \in 1..Len(users) :
              \E p \in PasswordBytes, slt \in Salts : HashOf(users[i].Password, p, slt))
    /\ [][/\ \A i \in 1..Len(users) : users'[i].Password = users[i].Password
          /\ Len(users') > Len(users) =>
                \E c \in Credentials, slt \in Salts :
                    /\ users'[Len(users')].Email = c[1]
                    /\ HashOf(users'[Len(users')].Password, c[2], slt)]_vars

C13_Witness ==
    /\ LoginDone /\ req.resp.status = 200
    /\ Len(users) = 2
    /\ users[1].Email = "b@x" /\ HashOf(users[1].Password, Pw1, "s1")
    /\ users[2].Deleted

\* ---------------------------------------------------------------- C14
\* the plaintext a stored secret was created from (CreateUser registers the
\* passwords of Credentials alone)
Registered(secret) ==
    CHOOSE p \in Passwords : \E slt \in Salts : HashOf(secret, p, slt)

\* C14: CheckPassword on a stored user succeeds for the password supplied
\* at creation and fails for every other candidate, and a Login answers 200
\* only when its body carries the password the user was created with.
C14_PasswordRoundTrip ==
    /\ [](\A i \in 1..Len(users), q \in PasswordBytes :
              (CheckPassword(users[i], q) = "nil") <=> (q = Registered(users[i].Password)))
    /\ [][(LoginStep /\ req'.body.kind = "json" /\ req'.resp.status = 200) =>
            (/\ GetUserByEmail(req'.body.Email).err = "nil"
             /\ req'.body.Password = Registered(GetUserByEmail(req'.body.Email).user.Password))]_vars

\* ---------------------------------------------------------------- C15
\* C15: no two stored refresh tokens have the same hash, and a Login whose
\* new hash is already stored fails with 400 and stores nothing.
C15_HashUnique ==
    /\ [](\A r1 \in rts, r2 \in rts : (r1.Hash = r2.Hash) => (r1 = r2))
    /\ [][(LoginStep /\ Matches(req'.body) /\ \E r \in rts : r.Hash = req'.rand) =>
            (req'.resp.status = 400 /\ rts' = rts)]_vars

\* ---------------------------------------------------------------- C16
Called(r, name) == \E i \in 1..Len(r.calls) : r.calls[i] = name

\* C16: every stored refresh token stays in the store with the hash, user
\* id and client address it was created with; AuthMiddleware leaves the
\* store unchanged on every path, and a Login adds one token when it
\* succeeds and none otherwise.
C16_WriteOnce ==
    [][/\ rts \subseteq rts'
       /\ \A r1 \in rts' : \A r0 \in rts : (r1.ID = r0.ID) => (r1 = r0)
       /\ AuthStep => (rts' = rts)
       /\ LoginStep =>
             IF req'.resp.status = 200
             THEN \E row \in rts' : row \notin rts /\ rts' = rts \cup {row}
             ELSE rts' = rts]_vars

C16_Witness ==
    /\ AuthDone /\ Authorized(req.resp)
    /\ req.err = "expired" /\ Called(req.resp, "GenerateToken")
    /\ Stored(req.rtCookie) # {}
    /\ Cardinality(rts) = 2

\* ---------------------------------------------------------------- C17
\* C17: when GenerateToken returns an error during renewal the request ends
\* denied with a 4xx status and an error reason, the protected handler does
\* not run and no jwt cookie is set.
C17_SigningFailureFatal ==
    [][(AuthStep /\ fault = "sign" /\ Called(req'.resp, "GenerateToken")) =>
         (/\ req'.resp.status \in 400..499
          /\ req'.resp.error # <<>>
          /\ req'.resp.aborted /\ ~req'.resp.handlerRan
          /\ \A k \in req'.resp.setCookies : k.name # "jwt")]_vars

\* ---------------------------------------------------------------- C18
UnknownEmail(body) ==
    body.kind = "json" /\ GetUserByEmail(body.Email).err # "nil"

WrongPassword(body) ==
    /\ body.kind = "json"
    /\ GetUserByEmail(body.Email).err = "nil"
    /\ CheckPassword(GetUserByEmail(body.Email).user, body.Password) # "nil"

\* C18: a Login naming an email that has no user and a Login naming an
\* existing email with a wrong password get the same status and the same
\* error reason.
C18_NoAccountLeak ==
    \A b1 \in LoginBodies, b2 \in LoginBodies, ip \in Ips, h \in Hashes :
        (UnknownEmail(b1) /\ WrongPassword(b2)) =>
            LET r1 == LoginResponse(b1, ip, h).resp
                r2 == LoginResponse(b2, ip, h).resp
            IN  r1.status = r2.status /\ r1.error = r2.error

\* ---------------------------------------------------------------- C19
\* C19: on every path through AuthMiddleware the protected handler runs
\* exactly when the middleware has set "user" in the context; a 401 comes
\* with the chain aborted, the handler not run and no user in the context,
\* so the handler's own "no user in the context" answer never occurs.
C19_ShortCircuit ==
    [][AuthStep =>
         (/\ req'.resp.handlerRan <=> req'.resp.ctx.set
          /\ (req'.resp.status = 401) =>
                (req'.resp.aborted /\ ~req'.resp.handlerRan /\ ~req'.resp.ctx.set)
          /\ req'.resp.aborted => ~req'.resp.handlerRan
          /\ req'.resp.error # <<"no user in the context">>)]_vars

C19_Witness ==
    /\ AuthDone /\ req.resp.status = 401 /\ req.resp.aborted
    /\ req.err = "nil" /\ Called(req.resp, "GetUser")
    /\ ~req.resp.handlerRan /\ ~req.resp.ctx.set

\* ---------------------------------------------------------------- C20
\* the stage sequences of the request state machine; a request with no
\* token, and an expired one with no rt cookie, end at once
AllowedPaths ==
    { <<"Unauthenticated", "Denied">>,
      <<"Unauthenticated", "TokenExtracted", "Verified", "Authorized">>,
      <<"Unauthenticated", "TokenExtracted", "Verified", "Denied">>,
      <<"Unauthenticated", "TokenExtracted", "Rejected", "Denied">>,
      <<"Unauthenticated", "TokenExtracted", "Expired", "Denied">>,
      <<"Unauthenticated", "TokenExtracted", "Expired", "RefreshAttempted", "Renewed", "Authorized">>,
      <<"Unauthenticated", "TokenExtracted", "Expired", "RefreshAttempted", "RefreshFailed", "Denied">> }

\* every accepted request reaches a terminal state
Terminates == (req.pc = "Unauthenticated") ~> AuthDone

\* the terminal state is Authorized or Denied, never both, never neither
ExactlyOne ==
    [][AuthStep =>
         (/\ Authorized(req'.resp) # Denied(req'.resp)
          /\ req'.path[Len(req'.path)] = (IF Authorized(req'.resp) THEN "Authorized" ELSE "Denied"))]_vars

\* C20: under fairness every request the middleware has accepted reaches
\* Terminal(Authorized) or Terminal(Denied), exactly one of them, and gets
\* there only through Unauthenticated, TokenExtracted, one of Verified,
\* Expired and Rejected, and after Expired through RefreshAttempted and
\* one of Renewed and RefreshFailed.
C20_OneTerminalState ==
    /\ Terminates
    /\ ExactlyOne
    /\ [][AuthStep => (req'.path \in AllowedPaths)]_vars

\* ---------------------------------------------------------------- C21
\* C21: when the access token verifies (it is not expired) the middleware
\* makes no refresh-token lookup and sets no jwt cookie, and its response
\* is the same whatever the rt cookie of the request holds.
C21_RenewalOnlyOnExpiry ==
    [][VerifiedStep =>
         (/\ ~Called(req'.resp, "GetRT")
          /\ ~Called(req'.resp, "GenerateToken")
          /\ JwtSet(req'.resp) = {}
          /\ \A c \in RtCookies :
                Middleware([req EXCEPT !.rtCookie = c], now).resp = req'.resp)]_vars

C21_Witness ==
    /\ AuthDone /\ Authorized(req.resp)
    /\ req.err = "nil" /\ req.resp.calls = <<"Parse", "GetUser">>
    /\ Stored(req.rtCookie) # {}
    /\ \E r \in Stored(req.rtCookie) : GetUser(r.UserId).err = "nil"
    /\ JwtSet(req.resp) = {}

\* ---------------------------------------------------------------- C22
Count(r, name) == Cardinality({i \in 1..Len(r.calls) : r.calls[i] = name})

LastCall(r) == r.calls[Len(r.calls)]

\* a response that ends the request with a 4xx and an error reason
ClientError(r) == r.status \in 400..499 /\ r.error # <<>> /\ ~r.handlerRan

\* C22: one request makes at most one refresh-token lookup and one user
\* lookup in AuthMiddleware, at most one user lookup and one refresh-token
\* create in Login; when a store call fails it is the last call of the
\* request, which ends with a 4xx error response.
C22_NoRetry ==
    [][/\ AuthStep =>
            (/\ Count(req'.resp, "GetRT") <= 1
             /\ Count(req'.resp, "GetUser") <= 1
             /\ (Called(req'.resp, "GetRT") /\ GetRT(req.rtCookie.value).err # "nil") =>
                    (LastCall(req'.resp) = "GetRT" /\ ClientError(req'.resp) /\ req'.resp.aborted)
             /\ (Called(req'.resp, "GetUser") /\ GetUser(req'.claimsId).err # "nil") =>
                    (LastCall(req'.resp) = "GetUser" /\ ClientError(req'.resp) /\ req'.resp.aborted))
       /\ LoginStep =>
            (/\ Count(req'.resp, "GetUserByEmail") <= 1
             /\ Count(req'.resp, "CreateRT") <= 1
             /\ (Called(req'.resp, "GetUserByEmail") /\ GetUserByEmail(req'.body.Email).err # "nil") =>
                    (LastCall(req'.resp) = "GetUserByEmail" /\ ClientError(req'.resp) /\ rts' = rts)
             /\ (Called(req'.resp, "CreateRT") /\ fault = "persist") =>
                    (LastCall(req'.resp) = "CreateRT" /\ ClientError(req'.resp) /\ rts' = rts))]_vars

C22_Witness ==
    /\ LoginDone /\ fault = "persist"
    /\ req.resp.calls = <<"GetUserByEmail", "GenerateToken", "CreateRT">>
    /\ req.resp.status = 400 /\ req.resp.error = <<"persist error">>
    /\ rts # {}

\* ---------------------------------------------------------------- C23
PeerStep == peer.pc = "Unauthenticated" /\ peer'.pc = "Terminal"

\* an expired token of the server with the refresh token of a live user
Renewable(q) ==
    /\ q.jwtCookie.present /\ ExpiredAt(q.jwtCookie.value, now)
    /\ \E r \in Stored(q.rtCookie) : GetRT(<<Text(r.Hash)>>).rt.User.ID # 0

\* C23: while a request is in flight, a step of the other request leaves
\* it and the stores unchanged, and the middleware of the other request
\* leaves the response it is going to get unchanged, so each request ends
\* as it would alone; two requests in flight with the same expired access
\* token and the same refresh token are both Authorized.
C23_RequestIndependence ==
    [][/\ (peer' # peer /\ req.pc = "Unauthenticated") =>
              (req' = req /\ users' = users /\ rts' = rts)
       /\ (req' # req /\ peer.pc = "Unauthenticated") =>
              (peer' = peer /\ users' = users /\ rts' = rts)
       /\ (PeerStep /\ req.pc = "Unauthenticated") =>
              (Middleware(req, now)' = Middleware(req, now))
       /\ (AuthStep /\ peer.pc = "Unauthenticated") =>
              (Middleware(peer, now)' = Middleware(peer, now))
       /\ (PeerStep /\ req.pc = "Unauthenticated" /\ NextTo(req) = NextTo(peer)) =>
              (/\ peer'.resp = Middleware(req, now).resp
               /\ Renewable(req) => (Authorized(peer'.resp) /\ Authorized(Middleware(req, now)'.resp)))
       /\ (AuthStep /\ peer.pc = "Unauthenticated" /\ NextTo(req) = NextTo(peer)) =>
              (/\ req'.resp = Middleware(peer, now).resp
               /\ Renewable(peer) => (Authorized(req'.resp) /\ Authorized(Middleware(peer, now)'.resp)))]_vars

C23_Witness ==
    /\ req.pc = "Terminal" /\ peer.pc = "Unauthenticated"
    /\ NextTo(req) = NextTo(peer)
    /\ Renewable(peer)
    /\ req.err = "expired" /\ Authorized(req.resp)
    /\ Authorized(Middleware(peer, now).resp)

\* ---------------------------------------------------------------- C24
UpdateStep ==
    /\ Len(users') = Len(users)
    /\ \E i \in 1..Len(users) : users'[i].Email # users[i].Email

\* C24: an UpdateUser request changes the email of one user and nothing
\* else: every stored password hash is the one it was, and CheckPassword
\* gives every candidate password the verdict it gave before the update.
C24_UpdateKeepsPassword ==
    [][UpdateStep =>
         \A i \in 1..Len(users) :
            /\ users'[i].Password = users[i].Password
            /\ users'[i].ID = users[i].ID /\ users'[i].Deleted = users[i].Deleted
            /\ \A q \in PasswordBytes :
                  CheckPassword(users'[i], q) = CheckPassword(users[i], q)]_vars

C24_Witness ==
    /\ Len(users) = 1 /\ users[1].Email = "b@x"
    /\ HashOf(users[1].Password, Pw1, "s1")
    /\ LoginDone /\ req.resp.status = 200
    /\ req.body.Email = "b@x" /\ req.body.Password = Pw1

\* ---------------------------------------------------------------- C25
\* C25: a request with an expired access token and the rt cookie of a
\* stored refresh token whose owner exists is renewed at every clock value
\* and after any number of earlier renewals with that refresh token; the
\* renewal neither removes nor replaces the refresh token.
C25_NoRotationNoExpiry ==
    [][(AuthStep /\ Renewable(req)) =>
         (/\ Authorized(req'.resp)
          /\ rts' = rts
          /\ \A k \in req'.resp.setCookies : k.name # "rt"
          /\ Renewable(req'))]_vars

\* the second renewal with the one refresh token, two lifetimes after it
\* was created: the token presented came from the first renewal
C25_Witness ==
    /\ AuthDone /\ Authorized(req.resp) /\ req.err = "expired"
    /\ req.origin.via = "renew"
    /\ Cardinality(rts) = 1 /\ Stored(req.rtCookie) = rts
    /\ now = 2 * TokenTTL

\* ---------------------------------------------------------------- C26
\* the Authorization headers a client may add to a request
Headers ==
    {EmptyString, <<BearerPrefix>>, <<Text("Basic dXNlcg==")>>}
        \cup {<<BearerPrefix>> \o g : g \in Given}

\* C26: when the request has a jwt cookie its outcome is the same whatever
\* the Authorization header holds, and a request whose jwt cookie is
\* malformed or tampered is Denied with 401 even when the header carries a
\* valid Bearer token.
C26_CookiePrecedence ==
    [][(AuthStep /\ req.jwtCookie.present) =>
         (/\ req'.jwtToken = req.jwtCookie.value
          /\ \A h \in Headers :
                Middleware([req EXCEPT !.authHeader = h], now).resp = req'.resp
          /\ (~WellSigned(req.jwtCookie.value)) =>
                (/\ Denied(req'.resp)
                 /\ \A g \in Given : ValidAt(g, now) =>
                       Denied(Middleware([req EXCEPT !.authHeader = <<BearerPrefix>> \o g],
                                         now).resp)))]_vars

C26_Witness ==
    /\ AuthDone /\ Denied(req.resp)
    /\ req.jwtCookie.present /\ ~WellSigned(req.jwtCookie.value)
    /\ Len(req.authHeader) = 2 /\ req.authHeader[1] = BearerPrefix
    /\ ValidAt(SubSeq(req.authHeader, 2, 2), now)

\* ---------------------------------------------------------------- C27
\* an access token of the server for user id, expired at the clock
Stale(id) == Jwt("HS256", id, now, Sign(JWT_SECRET, "HS256", id, now))

\* C27: on the renewal path the user put in the context and the id claim
\* of the new token are those of the owner of the refresh token, and the
\* response is the same whichever user the expired access token names.
C27_IdentityFromRefreshToken ==
    [][(AuthStep /\ Renewable(req)) =>
         (\A r \in Stored(req.rtCookie) :
            /\ req'.resp.ctx = Ctx(users[r.UserId])
            /\ \A c \in JwtSet(req'.resp) : c.value[1].id = r.UserId
            /\ \A id \in 1..MaxUsers :
                  Middleware([req EXCEPT !.jwtCookie = Cookie(Stale(id))], now).resp
                      = req'.resp)]_vars

C27_Witness ==
    /\ AuthDone /\ Authorized(req.resp) /\ req.err = "expired"
    /\ \E r \in Stored(req.rtCookie) :
          /\ r.UserId # req.jwtCookie.value[1].id
          /\ req.resp.ctx.user.ID = r.UserId
          /\ \E c \in JwtSet(req.resp) : c.value[1].id = r.UserId

\* ---------------------------------------------------------------- C28
Gone == {i \in 1..Len(users) : users[i].Deleted}

\* the body carries the email and the password of user i
CredentialsOf(body, i) ==
    /\ body.kind = "json"
    /\ users[i].Email = body.Email
    /\ CheckPassword(users[i], body.Password) = "nil"

\* no middleware request is authorized for a deleted user
GoneDenied ==
    AuthStep =>
        \A u \in Gone :
            /\ (ValidAt(req'.jwtToken, now) /\ req'.jwtToken[1].id = u) => Denied(req'.resp)
            /\ (req.jwtCookie.present /\ ExpiredAt(req.jwtCookie.value, now)
                  /\ \E r \in Stored(req.rtCookie) : r.UserId = u) => Denied(req'.resp)
            /\ req'.resp.ctx.user.ID # u

\* C28 as claimed: after DeleteUser(U) every request with an unexpired
\* token minted for U, or an expired token and a refresh token of U, is
\* Denied with 401, and Login with U's credentials returns 400.
C28_DeletedLoginRefused ==
    [][/\ GoneDenied
       /\ LoginStep =>
            \A u \in Gone : CredentialsOf(req'.body, u) => (req'.resp.status = 400)]_vars

\* C28: after DeleteUser(U) every request with an unexpired token minted
\* for U, or an expired token and a refresh token of U, is Denied with 401;
\* Login with U's credentials is never answered for U: it returns 400, or,
\* when the first user with that email that is not deleted has the same
\* password, 200 for that user.
C28_DeletedNeverServed ==
    [][/\ GoneDenied
       /\ LoginStep =>
            \A u \in Gone : CredentialsOf(req'.body, u) =>
                /\ req'.resp.bodyUser # u
                /\ \A r \in rts' \ rts : r.UserId # u
                /\ LET found == GetUserByEmail(req'.body.Email) IN
                   IF found.err = "nil" /\ CheckPassword(found.user, req'.body.Password) = "nil"
                   THEN /\ req'.resp.status = 200
                        /\ req'.resp.bodyUser = found.user.ID
                        /\ found.user.ID \in LiveIds
                   ELSE req'.resp.status = 400]_vars

C28_Witness ==
    /\ AuthDone /\ Denied(req.resp)
    /\ req.err = "expired" /\ Called(req.resp, "GetRT")
    /\ \E r \in Stored(req.rtCookie) : r.UserId \in Gone
    /\ req.jwtCookie.value[1].id \in Gone

\* ---------------------------------------------------------------- C29
\* the addresses a request may come from: the one the logins came from,
\* and another
Addresses == Ips \cup {"10.0.0.2"}

\* C29: the response of the middleware to a request with an expired token
\* is the same from every client address, the one stored with the refresh
\* token and any other; a renewable request is renewed although the stored
\* address is not the request's.
C29_RenewalIgnoresAddress ==
    [][(AuthStep /\ req'.err = "expired") =>
         (/\ \A a \in Addresses :
                Middleware([req EXCEPT !.ip = a], now).resp = req'.resp
          /\ Renewable(req) =>
                (/\ Authorized(req'.resp)
                 /\ \A r \in Stored(req.rtCookie), a \in Addresses :
                       Authorized(Middleware([req EXCEPT !.ip = a], now).resp)))]_vars

C29_Witness ==
    /\ AuthDone /\ Authorized(req.resp) /\ req.err = "expired"
    /\ \E r \in Stored(req.rtCookie) : r.Ip \in Addresses /\ r.Ip # req.ip
    /\ \E a \in Addresses : \A r \in Stored(req.rtCookie) : a # r.Ip

\* ---------------------------------------------------------------- C30
\* the token is signed by the server with the claims id, authorized and
\* exp = t + 300 for user id
MintedFor(s, id, t) ==
    /\ WellSigned(s)
    /\ s[1].authorized
    /\ s[1].id = id /\ id \in 1..Len(users)
    /\ s[1].exp = t + 300

\* C30: the token a Login returns and the token a renewal sets carry the
\* id of the user they are for, authorized = true and exp = now + 300 s;
\* every token that passes verification carries the id of a created user,
\* which is the id the middleware extracts.
C30_TokenClaims ==
    [][/\ (LoginStep /\ req'.resp.status = 200) =>
            (/\ MintedFor(req'.resp.bodyToken, req'.resp.bodyUser, now)
             /\ JwtSet(req'.resp) = {SetCookie("jwt", req'.resp.bodyToken, CookieMaxAge)})
       /\ AuthStep =>
            (\A c \in JwtSet(req'.resp) : MintedFor(c.value, req'.resp.ctx.user.ID, now))
       /\ VerifiedStep =>
            (/\ req'.jwtToken[1].authorized
             /\ req'.jwtToken[1].id \in 1..Len(users)
             /\ req'.claimsId = req'.jwtToken[1].id
             /\ req.origin.via \in {"login", "renew"}
             /\ req.origin.user = req'.claimsId)]_vars

C30_Witness ==
    /\ AuthDone /\ Authorized(req.resp) /\ req.err = "nil"
    /\ req.origin.via = "renew"
    /\ req.claimsId = req.jwtToken[1].id /\ req.claimsId \in LiveIds
    /\ req.resp.ctx.user.ID = req.claimsId


\* ---------------------------------------------------------------- C31
\* a request to /test/auth that the middleware let through to the handler
Served(q) == q.kind = "auth" /\ q.pc = "Terminal" /\ Authorized(q.resp)

\* C31: the value stored under the context key "user" is of one kind on
\* every authorized path: two requests the middleware let through, whether
\* by the Verified path or by the Renewed path, hand the downstream handler
\* a value of the same type (both a user value, or both a user reference).
C31_UniformIdentity ==
    (Served(req) /\ Served(peer)) => req.resp.ctxKind = peer.resp.ctxKind

\* the user found under the key is the same record on both paths
C31_SameUser ==
    (Served(req) /\ Served(peer) /\ req.resp.ctx.user.ID = peer.resp.ctx.user.ID)
        => req.resp.ctx = peer.resp.ctx


\* ---------------------------------------------------------------- C32
\* a user handler has served a request
RouteStep == Free /\ req'.kind = "user" /\ fault' = fault

IdRoutes == {"GetUser", "UpdateUser", "DeleteUser"}

\* text that is a decimal integer: an optional sign, then digits only
Numeral(s) ==
    LET ds == IF s # <<>> /\ s[1] \in {"+", "-"} THEN Tail(s) ELSE s
    IN  ds # <<>> /\ \A i \in 1..Len(ds) : ds[i] \in {DigitChars[d] : d \in 1..10}

\* the response is a 400 with an error reason and nothing of a 200 body
Refused(r) ==
    /\ r.status = 400 /\ r.error # <<>>
    /\ r.bodyUser = 0 /\ r.bodyUsers = {} /\ r.bodyMessage = ""

\* the number a numeral stands for
NumberOf(s) ==
    IF s[1] = "-" THEN 0 - Value(Tail(s))
    ELSE IF s[1] = "+" THEN Value(Tail(s))
    ELSE Value(s)

\* the call the handler made to the user service was bound to fail: the
\* table fails, or the row asked for is not there
ServiceFailed(q) ==
    /\ q.resp.calls # <<>>
    /\ \/ fault = "users"
       \/ q.route \in IdRoutes /\ NumberOf(q.param) \notin LiveIds

\* C32: GetUser, UpdateUser and DeleteUser called with a path id that is
\* not an integer answer 400 with an error reason without calling the user
\* service, and the user table is unchanged; a failure of the user service
\* in any user handler is answered 400 with an error reason and never with
\* a 200 body.
C32_BadIdsRejected ==
    [][RouteStep =>
        /\ (req'.route \in IdRoutes /\ ~Numeral(req'.param)) =>
              (Refused(req'.resp) /\ req'.resp.calls = <<>> /\ users' = users)
        /\ ServiceFailed(req') => Refused(req'.resp)]_vars

C32_Witness ==
    /\ req.kind = "user" /\ req.route = "DeleteUser" /\ ~Numeral(req.param)
    /\ LiveIds # {}
    /\ Refused(req.resp) /\ req.resp.calls = <<>>

\* a handler answered 400 for a failure of the service
C32_ServiceFailure ==
    /\ req.kind = "user" /\ req.route = "UpdateUser" /\ req.resp.calls = <<"UpdateUser">>
    /\ fault = "none" /\ LiveIds # {}
    /\ Refused(req.resp) /\ req.resp.error = <<"record not found">>

====
